---- MODULE Spec2Model ----
(***************************************************************************)
(* A model of main.py of ResumeSelector: the extraction of a dictionary    *)
(* string from the model's answer (extract_python_dict_string), the        *)
(* processing of one resume (process_single_resume) and the batch          *)
(* endpoint (process_resumes_endpoint) with its concurrently running model *)
(* calls and its column ordering.                                          *)
(*                                                                         *)
(* Text is a sequence of tokens.  A token stands for a piece of text that  *)
(* the regular expressions and the literal parser treat as a unit.         *)
(***************************************************************************)
EXTENDS Naturals, Sequences, FiniteSets, TLC

VARIABLES
    \* extract_python_dict_string, on its own
    response_text,      \* the argument
    x_pc,               \* "call" | "returned" ("idle" where the function is not under study)
    x_result,           \* the value returned
    \* process_single_resume, on its own
    s_args,             \* [llm_client, filename, response]
    s_pc,               \* "entry" | "returned" | "raised"
    s_dict_string,      \* the local dict_string
    s_extracted_data,   \* what ast.literal_eval gave
    s_result,           \* the value returned
    \* process_resumes_endpoint
    client,             \* the module's client: "client" or "None"
    files,              \* the uploaded files
    pc,                 \* where the endpoint coroutine is: "entry", "loop", "gather", "check",
                        \* "serialize", and its ends "done", "http400", "http500_client",
                        \* "http500_export"
    i,                  \* the file the for loop is at
    processed_results,  \* the list processed_results
    tasks,              \* the list tasks, with each coroutine's position and result
    new_cols            \* the header of the exported table

x_vars == <<response_text, x_pc, x_result>>
s_vars == <<s_args, s_pc, s_dict_string, s_extracted_data, s_result>>
e_vars == <<client, files, pc, i, processed_results, tasks, new_cols>>
vars == <<x_vars, s_vars, e_vars>>

----------------------------------------------------------------------------
(* Bounds *)

\* the longest text handed to extract_python_dict_string on its own
MaxTextLen == 6

\* the most files in one upload
MaxFiles == 3

\* the most entries in a dictionary body of a model answer handed to process_single_resume
MaxEntries == 3

----------------------------------------------------------------------------
(* Tokens *)

\* three backticks
FENCE == "fence"
PY == "python"
WS == " "
LB == "{"
RB == "}"
COMMA == ","
STR == "'v'"
K_NAME == "'NAME':"
K_SUMMARY == "'SUMMARY':"
K_FILENAME == "'FILENAME':"
K_NOTES == "'NOTES':"
K_SCORE == "'SCORE':"
WORD == "text"

\* Python's None, where a text or a record is expected
None == [found |-> FALSE, str |-> <<>>]
Some(s) == [found |-> TRUE, str |-> s]

----------------------------------------------------------------------------
(* extract_python_dict_string *)

\* s[a..b]
Slice(s, a, b) == SubSeq(s, a, b)

RECURSIVE SkipWs(_, _)
\* the first position at or after p that holds no whitespace: what \s* consumes
SkipWs(s, p) ==
    IF p <= Len(s) /\ s[p] = WS THEN SkipWs(s, p + 1) ELSE p

RECURSIVE SkipWsBack(_, _)
SkipWsBack(s, p) ==
    IF p >= 1 /\ s[p] = WS THEN SkipWsBack(s, p - 1) ELSE p

\* str.strip()
Strip(s) ==
    LET a == SkipWs(s, 1)
        b == SkipWsBack(s, Len(s))
    IN  IF a > b THEN <<>> ELSE Slice(s, a, b)

\* \}\s*``` matches at q
ClosesFenced(s, q) ==
    /\ s[q] = RB
    /\ LET f == SkipWs(s, q + 1) IN f <= Len(s) /\ s[f] = FENCE

RECURSIVE LazyFencedEnd(_, _)
\* .*? then \}\s*```: the first closing brace at or after q that the fence follows
LazyFencedEnd(s, q) ==
    IF q > Len(s) THEN 0
    ELSE IF ClosesFenced(s, q) THEN q
    ELSE LazyFencedEnd(s, q + 1)

\* ```python\s*(\{.*?\})\s*``` matched from position a: group 1 as <<p, q>>, or <<0, 0>>
FencedMatchAt(s, a) ==
    IF a + 1 <= Len(s) /\ s[a] = FENCE /\ s[a + 1] = PY
    THEN LET p == SkipWs(s, a + 2)
         IN  IF p <= Len(s) /\ s[p] = LB
             THEN LET q == LazyFencedEnd(s, p + 1)
                  IN  IF q = 0 THEN <<0, 0>> ELSE <<p, q>>
             ELSE <<0, 0>>
    ELSE <<0, 0>>

RECURSIVE SearchFenced(_, _)
\* re.search: the match at the leftmost position that has one
SearchFenced(s, a) ==
    IF a > Len(s) THEN <<0, 0>>
    ELSE IF FencedMatchAt(s, a) # <<0, 0>> THEN FencedMatchAt(s, a)
    ELSE SearchFenced(s, a + 1)

RECURSIVE FirstOf(_, _, _)
\* the first position at or after p that holds token t, or 0
FirstOf(s, t, p) ==
    IF p > Len(s) THEN 0
    ELSE IF s[p] = t THEN p
    ELSE FirstOf(s, t, p + 1)

\* (\{.*?\}) matched from position a
RawMatchAt(s, a) ==
    IF s[a] = LB
    THEN LET q == FirstOf(s, RB, a + 1)
         IN  IF q = 0 THEN <<0, 0>> ELSE <<a, q>>
    ELSE <<0, 0>>

RECURSIVE SearchRaw(_, _)
SearchRaw(s, a) ==
    IF a > Len(s) THEN <<0, 0>>
    ELSE IF RawMatchAt(s, a) # <<0, 0>> THEN RawMatchAt(s, a)
    ELSE SearchRaw(s, a + 1)

\* "marker in text"
Contains(s, t) == \E p \in 1..Len(s) : s[p] = t

\* the heuristic check with "or" for "and"
LooksLikeDictEither(s) == Contains(s, K_NAME) \/ Contains(s, K_SUMMARY)

\* the heuristic check of the raw span
LooksLikeDict(s) == Contains(s, K_NAME) /\ Contains(s, K_SUMMARY)

extract_python_dict_string(text) ==
    LET m1 == SearchFenced(text, 1)
        m2 == SearchRaw(text, 1)
    IN  IF m1 # <<0, 0>> THEN Some(Strip(Slice(text, m1[1], m1[2])))
        ELSE IF m2 # <<0, 0>> /\ LooksLikeDict(Strip(Slice(text, m2[1], m2[2])))
             THEN Some(Strip(Slice(text, m2[1], m2[2])))
        ELSE None

----------------------------------------------------------------------------
(* Python values.  A value is a node [t, s, items]: a str (s its text), a   *)
(* dict or a set (items its entries, a dict's in insertion order), or a     *)
(* bare name, which is no literal.  An entry is [k, v]; a set's has k = "". *)

StrVal(x) == [t |-> "str", s |-> x, items |-> <<>>]
NameNode == [t |-> "name", s |-> "", items |-> <<>>]
DictVal(items) == [t |-> "dict", s |-> "", items |-> items]
SetVal(items) == [t |-> "set", s |-> "", items |-> items]

\* a dict as the sequence of its entries
Keys(d) == {d[n].k : n \in 1..Len(d)}
HasKey(d, k) == \E n \in 1..Len(d) : d[n].k = k
Get(d, k) == d[CHOOSE n \in 1..Len(d) : d[n].k = k].v

\* d[k] = v with a setdefault in place of the assignment
SetDefault(d, k, v) ==
    IF HasKey(d, k) THEN d ELSE Append(d, [k |-> k, v |-> v])

\* d[k] = v: a key the dict holds keeps its place and takes the value, a new key goes last
SetItem(d, k, v) ==
    IF HasKey(d, k)
    THEN [n \in 1..Len(d) |-> IF d[n].k = k THEN [k |-> k, v |-> v] ELSE d[n]]
    ELSE Append(d, [k |-> k, v |-> v])

----------------------------------------------------------------------------
(* ast.literal_eval, for the literals the tokens can spell: strings (with   *)
(* adjacent literals concatenated), dict and set displays, nested.          *)

KeyTokens == {K_NAME, K_SUMMARY, K_FILENAME, K_NOTES, K_SCORE}

KeyName(tok) ==
    CASE tok = K_NAME -> "NAME"
      [] tok = K_SUMMARY -> "SUMMARY"
      [] tok = K_FILENAME -> "FILENAME"
      [] tok = K_NOTES -> "NOTES"
      [] tok = K_SCORE -> "SCORE"

RECURSIVE Rep(_)
\* the text of n adjacent 'v' literals
Rep(n) == IF n = 0 THEN "" ELSE "v" \o Rep(n - 1)

RECURSIVE StrRunEnd(_, _)
\* the first position at or after p that holds no string literal
StrRunEnd(t, p) ==
    IF p <= Len(t) /\ t[p] = STR THEN StrRunEnd(t, p + 1) ELSE p

ParseFail == [ok |-> FALSE, pair |-> FALSE, k |-> "", node |-> NameNode, next |-> 0]
ParseOk(node, next) == [ok |-> TRUE, pair |-> FALSE, k |-> "", node |-> node, next |-> next]

RECURSIVE ParseAtom(_, _)
RECURSIVE ParseElem(_, _)
RECURSIVE ParseBrace(_, _, _, _)

\* one expression starting at p
ParseAtom(t, p) ==
    IF p > Len(t) THEN ParseFail
    ELSE IF t[p] = STR
         THEN ParseOk(StrVal(Rep(StrRunEnd(t, p) - p)), StrRunEnd(t, p))
    ELSE IF t[p] \in {PY, WORD} THEN ParseOk(NameNode, p + 1)
    ELSE IF t[p] = LB
         THEN IF p + 1 <= Len(t) /\ t[p + 1] = RB
              THEN ParseOk(DictVal(<<>>), p + 2)
              ELSE ParseBrace(t, p + 1, "?", <<>>)
    ELSE ParseFail

\* one entry of a display: key: value, or a value
ParseElem(t, p) ==
    LET e == StrRunEnd(t, p)
    IN  IF e <= Len(t) /\ t[e] \in KeyTokens
        THEN LET a == ParseAtom(t, e + 1)
             IN  IF a.ok
                 THEN [ok |-> TRUE, pair |-> TRUE, k |-> Rep(e - p) \o KeyName(t[e]),
                       node |-> a.node, next |-> a.next]
                 ELSE ParseFail
        ELSE ParseAtom(t, p)

\* the entries of a display from p to its closing brace; kind is "?" until the
\* first entry tells a dict from a set
ParseBrace(t, p, kind, acc) ==
    LET el == ParseElem(t, p)
        k2 == IF el.pair THEN "dict" ELSE "set"
        acc2 == Append(acc, [k |-> el.k, v |-> el.node])
        n == el.next
        done == IF k2 = "dict" THEN DictVal(acc2) ELSE SetVal(acc2)
    IN  IF ~el.ok THEN ParseFail
        ELSE IF kind # "?" /\ kind # k2 THEN ParseFail
        ELSE IF n > Len(t) THEN ParseFail
        ELSE IF t[n] = RB THEN ParseOk(done, n + 1)
        ELSE IF t[n] = COMMA
             THEN IF n + 1 <= Len(t) /\ t[n + 1] = RB
                  THEN ParseOk(done, n + 2)
                  ELSE ParseBrace(t, n + 1, k2, acc2)
        ELSE ParseFail

EvalOk(v) == [status |-> "ok", val |-> v]
EvalErr(e) == [status |-> e, val |-> NameNode]

RECURSIVE Convert(_)
RECURSIVE ConvertDict(_, _)
RECURSIVE ConvertSet(_, _)

\* _convert: the value of a node, or the first error met in evaluation order
Convert(node) ==
    IF node.t = "str" THEN EvalOk(node)
    ELSE IF node.t = "name" THEN EvalErr("ValueError")
    ELSE IF node.t = "dict" THEN ConvertDict(node.items, <<>>)
    ELSE ConvertSet(node.items, <<>>)

\* dict(zip(keys, values)): a repeated key keeps its first place and its last value
ConvertDict(items, acc) ==
    IF items = <<>> THEN EvalOk(DictVal(acc))
    ELSE LET v == Convert(Head(items).v)
         IN  IF v.status # "ok" THEN v
             ELSE ConvertDict(Tail(items), SetItem(acc, Head(items).k, v.val))

\* set(values): a dict or a set is unhashable
ConvertSet(items, acc) ==
    IF items = <<>> THEN EvalOk(SetVal(acc))
    ELSE LET v == Convert(Head(items).v)
         IN  IF v.status # "ok" THEN v
             ELSE IF v.val.t \in {"dict", "set"} THEN EvalErr("TypeError")
             ELSE ConvertSet(Tail(items), Append(acc, [k |-> "", v |-> v.val]))

NotWs(tok) == tok # WS

literal_eval(s) ==
    LET t == SelectSeq(s, NotWs)
        r == ParseAtom(t, 1)
    IN  IF ~r.ok \/ r.next # Len(t) + 1 THEN EvalErr("SyntaxError")
        ELSE Convert(r.node)

----------------------------------------------------------------------------
(* process_single_resume *)

\* what llm_client.responses.create and response.output_text give
Raises == [kind |-> "raises", text |-> <<>>]
NoOutputText == [kind |-> "no_attr", text |-> <<>>]
NoneText == [kind |-> "none", text |-> <<>>]
Text(s) == [kind |-> "text", text |-> s]

ErrorOnly(msg) == << [k |-> "ERROR", v |-> StrVal(msg)] >>

LlmFailed(filename) == ErrorOnly("LLM API call failed for " \o filename \o ": <e>")
NoDictString(filename) == ErrorOnly("Could not parse LLM response for " \o filename)
NotADict(filename) == ErrorOnly("Could not parse dictionary from LLM response for " \o filename)
Unexpected(filename) == ErrorOnly("Unexpected parsing error for " \o filename)

Return(rec) == [outcome |-> "return", value |-> rec, exc |-> ""]
Raise(exc) == [outcome |-> "raise", value |-> <<>>, exc |-> exc]

\* extracted_data['FILENAME'] = filename, by setdefault
AddFilenameIfAbsent(d, filename) == SetDefault(d, "FILENAME", StrVal(filename))

\* extracted_data['FILENAME'] = filename
AddFilename(d, filename) == SetItem(d, "FILENAME", StrVal(filename))

\* the try block around ast.literal_eval
ParseRecord(dict_string, filename) ==
    LET extracted_data == literal_eval(dict_string)
    IN  IF extracted_data.status \in {"ValueError", "SyntaxError"} THEN NotADict(filename)
        ELSE IF extracted_data.status # "ok" THEN Unexpected(filename)
        ELSE IF extracted_data.val.t # "dict" THEN NotADict(filename)
        ELSE AddFilename(extracted_data.val.items, filename)

\* the guard at the top: "if not llm_client"
ClientMissing(llm_client) == llm_client = "None"

process_single_resume(filename, llm_client, response) ==
    IF ClientMissing(llm_client) THEN Raise("HTTPException(500)")
    ELSE IF response.kind \in {"raises", "no_attr"} THEN Return(LlmFailed(filename))
    ELSE IF response.kind = "none" THEN Raise("TypeError")
    ELSE LET dict_string == extract_python_dict_string(response.text)
         IN  IF ~dict_string.found \/ dict_string.str = <<>>
             THEN Return(NoDictString(filename))
             ELSE Return(ParseRecord(dict_string.str, filename))

----------------------------------------------------------------------------
(* The specification of extract_python_dict_string on its own *)

ExtractAlphabet == {FENCE, PY, WS, LB, RB, K_NAME, K_SUMMARY}

ExtractTexts == UNION {[1..n -> ExtractAlphabet] : n \in 0..MaxTextLen}

s_idle ==
    /\ s_args = [llm_client |-> "None", filename |-> "", response |-> [kind |-> "raises", text |-> <<>>]]
    /\ s_pc = "idle"
    /\ s_dict_string = None
    /\ s_extracted_data = None
    /\ s_result = None

x_idle ==
    /\ response_text = <<>>
    /\ x_pc = "idle"
    /\ x_result = None

e_idle ==
    /\ client = "None"
    /\ files = <<>>
    /\ pc = "idle"
    /\ i = 0
    /\ processed_results = <<>>
    /\ tasks = <<>>
    /\ new_cols = <<>>

InitExtract ==
    /\ response_text \in ExtractTexts
    /\ x_pc = "call"
    /\ x_result = None
    /\ s_idle
    /\ e_idle

Extract ==
    /\ x_pc = "call"
    /\ x_result' = extract_python_dict_string(response_text)
    /\ x_pc' = "returned"
    /\ UNCHANGED <<response_text, s_vars, e_vars>>

NextExtract == Extract

SpecExtract == InitExtract /\ [][NextExtract]_vars

\* s[p..q] is the brace-delimited body of a fenced python block of s
FencedBody(s, p, q) ==
    /\ p < q
    /\ s[p] = LB
    /\ s[q] = RB
    /\ \E a \in 1..(p - 1) :
          /\ a + 1 < p
          /\ s[a] = FENCE
          /\ s[a + 1] = PY
          /\ \A n \in (a + 2)..(p - 1) : s[n] = WS
    /\ \E f \in (q + 1)..Len(s) :
          /\ s[f] = FENCE
          /\ \A n \in (q + 1)..(f - 1) : s[n] = WS

HasFencedBlock(s) == \E p, q \in 1..Len(s) : FencedBody(s, p, q)

\* s[p..q] is a brace-delimited span of s that holds no closing brace before its last
BraceSpan(s, p, q) ==
    /\ p < q
    /\ s[p] = LB
    /\ s[q] = RB
    /\ \A n \in (p + 1)..(q - 1) : s[n] # RB

\* s[p..q] is the first brace-delimited span of s
FirstBraceSpan(s, p, q) ==
    /\ BraceSpan(s, p, q)
    /\ \A p2, q2 \in 1..Len(s) : BraceSpan(s, p2, q2) => p <= p2

HasBothMarkers(s) ==
    /\ \E n \in 1..Len(s) : s[n] = K_NAME
    /\ \E n \in 1..Len(s) : s[n] = K_SUMMARY

\* C9: extract_python_dict_string returns the body of a fenced python block when the
\* text holds one, whatever the body's keys; otherwise it returns the first
\* brace-delimited span exactly when that span holds both the 'NAME': and the
\* 'SUMMARY': marker; in every other case it returns None.  It returns for every text.
C9_ExtractRules ==
    /\ x_pc \in {"call", "returned"}
    /\ x_pc = "returned" =>
        IF HasFencedBlock(response_text)
        THEN /\ x_result.found
             /\ \E p, q \in 1..Len(response_text) :
                   /\ FencedBody(response_text, p, q)
                   /\ x_result.str = SubSeq(response_text, p, q)
        ELSE IF \E p, q \in 1..Len(response_text) : BraceSpan(response_text, p, q)
        THEN \A p, q \in 1..Len(response_text) :
                FirstBraceSpan(response_text, p, q) =>
                    IF HasBothMarkers(SubSeq(response_text, p, q))
                    THEN x_result = Some(SubSeq(response_text, p, q))
                    ELSE x_result = None
        ELSE x_result = None

\* a text with no fenced block whose first span lacks a marker and whose later span has
\* both, for which None was returned
C9_Witness ==
    /\ x_pc = "returned"
    /\ ~HasFencedBlock(response_text)
    /\ x_result = None
    /\ \E p, q \in 1..Len(response_text) :
          /\ BraceSpan(response_text, p, q)
          /\ HasBothMarkers(SubSeq(response_text, p, q))

----------------------------------------------------------------------------
(* The specification of process_single_resume on its own: one call, for     *)
(* every client handle, file name and model answer of the sets below.       *)

\* the pieces a model answer's braces may hold: well-formed entries, a set element, a
\* key with no value, nested displays, a bare word
Entries ==
    { <<K_NAME, STR>>, <<K_SUMMARY, STR>>, <<K_FILENAME, STR>>, <<STR>>,
      <<K_NAME>>, <<K_NOTES, LB, RB>>, <<LB, RB>> }

RECURSIVE Join(_)
\* the entries with a comma between
Join(es) ==
    IF es = <<>> THEN <<>>
    ELSE IF Len(es) = 1 THEN es[1]
    ELSE es[1] \o <<COMMA>> \o Join(Tail(es))

Bodies ==
    { <<LB>> \o Join(es) \o close :
        es \in UNION {[1..n -> Entries] : n \in 0..MaxEntries},
        close \in {<<RB>>, <<>>} }

\* a body as the model may send it: alone, within prose, in a fenced block
Wrap(w, body) ==
    CASE w = "raw" -> body
      [] w = "prose" -> <<WORD, WS>> \o body \o <<WS, WORD>>
      [] w = "fenced" -> <<FENCE, PY, WS>> \o body \o <<WS, FENCE>>

SingleResponses ==
    {Raises, NoOutputText, NoneText}
        \cup {Text(Wrap(w, b)) : w \in {"raw", "prose", "fenced"}, b \in Bodies}

InitSingle ==
    /\ s_args \in [llm_client : {"client", "None"},
                   filename : {"a.pdf", "b.pdf"},
                   response : SingleResponses]
    /\ s_pc = "entry"
    /\ s_dict_string = None
    /\ s_extracted_data = EvalErr("unset")
    /\ s_result = Return(<<>>)
    /\ x_idle
    /\ e_idle

\* one call of process_single_resume, keeping its locals
SingleCall ==
    /\ s_pc = "entry"
    /\ LET r == process_single_resume(s_args.filename, s_args.llm_client, s_args.response)
           reached == ~ClientMissing(s_args.llm_client) /\ s_args.response.kind = "text"
           ds == IF reached THEN extract_python_dict_string(s_args.response.text) ELSE None
       IN  /\ s_result' = r
           /\ s_pc' = IF r.outcome = "return" THEN "returned" ELSE "raised"
           /\ s_dict_string' = ds
           /\ s_extracted_data' =
                 IF ds.found THEN literal_eval(ds.str) ELSE EvalErr("unset")
    /\ UNCHANGED <<s_args, x_vars, e_vars>>

NextSingle == SingleCall

SpecSingle == InitSingle /\ [][NextSingle]_vars

\* C4: process_single_resume never raises: every call ends by returning a record.
C4_NeverRaises == s_pc # "raised"

IsParseFailure(rec, filename) ==
    /\ Keys(rec) = {"ERROR"}
    /\ rec \in {NotADict(filename), Unexpected(filename)}

----------------------------------------------------------------------------
(* process_resumes_endpoint *)

PDF == "application/pdf"

\* an UploadFile: its filename ("" when it has none), its content_type, and what
\* await file.read() does: "bytes" (some bytes), "empty" (no bytes), "raises"
UploadItems ==
    { [filename |-> "n.txt", content_type |-> "text/plain", read |-> "bytes"],
      [filename |-> "", content_type |-> "text/plain", read |-> "bytes"],
      [filename |-> "", content_type |-> PDF, read |-> "bytes"],
      [filename |-> "e.pdf", content_type |-> PDF, read |-> "empty"],
      [filename |-> "r.pdf", content_type |-> PDF, read |-> "raises"],
      [filename |-> "a.pdf", content_type |-> PDF, read |-> "bytes"],
      [filename |-> "b.pdf", content_type |-> PDF, read |-> "bytes"] }

\* what the module's OpenAI client gives for a call: an exception, or a response whose
\* output_text is a str
EndpointResponses ==
    { Raises,
      \* ```python {'NAME': 'v', 'SUMMARY': 'v'} ```
      Text(<<FENCE, PY, WS, LB, K_NAME, STR, COMMA, K_SUMMARY, STR, RB, WS, FENCE>>),
      \* text {'NOTES': 'v', 'NAME': 'v', 'SUMMARY': 'v'}
      Text(<<WORD, WS, LB, K_NOTES, STR, COMMA, K_NAME, STR, COMMA, K_SUMMARY, STR, RB>>),
      \* ```python{'SUMMARY': 'v', 'SCORE': 'v', 'FILENAME': 'v', 'NAME': 'v'}```
      Text(<<FENCE, PY, LB, K_SUMMARY, STR, COMMA, K_SCORE, STR, COMMA, K_FILENAME, STR,
             COMMA, K_NAME, STR, RB, FENCE>>),
      \* text text
      Text(<<WORD, WS, WORD>>),
      \* ```python {'v'} ```
      Text(<<FENCE, PY, WS, LB, STR, RB, WS, FENCE>>) }

Rec2(filename, msg) ==
    << [k |-> "FILENAME", v |-> StrVal(filename)], [k |-> "ERROR", v |-> StrVal(msg)] >>

Rejected(rec) == [dispatch |-> FALSE, rec |-> rec]
Dispatched == [dispatch |-> TRUE, rec |-> <<>>]

\* the body of the for loop with the check of the content type left out
ValidateAnyType(file) ==
    IF file.filename = "" THEN Rejected(Rec2("N/A", "File uploaded without a filename"))
    ELSE IF file.read = "raises"
         THEN Rejected(Rec2(file.filename, "Failed to read file: <e>"))
    ELSE IF file.read = "empty" THEN Rejected(Rec2(file.filename, "Empty file uploaded"))
    ELSE Dispatched

\* the body of the for loop: the record appended for a file, or that a coroutine is
\* made for it (file.close() in the finally clause is taken not to raise)
Validate(file) ==
    IF file.content_type # PDF
    THEN Rejected(Rec2(file.filename, "Invalid file type (must be PDF)"))
    ELSE IF file.filename = ""
         THEN Rejected(Rec2("N/A", "File uploaded without a filename"))
    ELSE IF file.read = "raises"
         THEN Rejected(Rec2(file.filename, "Failed to read file: <e>"))
    ELSE IF file.read = "empty" THEN Rejected(Rec2(file.filename, "Empty file uploaded"))
    ELSE Dispatched

\* tasks.append(process_single_resume(...)): a coroutine object, which runs once awaited
NewTask(file) == [filename |-> file.filename, st |-> "created", result |-> <<>>]

\* Python's None in a list of records
PyNone == << [k |-> "<None>", v |-> NameNode] >>
NotNone(res) == res # PyNone
IsSuccess(res) == ~HasKey(res, "ERROR")

\* the extend with the results in front
ExtendInFront(results, results_from_tasks) ==
    SelectSeq(results_from_tasks, NotNone) \o results

\* the extend with the error records filtered out as well
ExtendWithSuccesses(results, results_from_tasks) ==
    results \o SelectSeq(results_from_tasks, IsSuccess)

\* processed_results.extend([res for res in results_from_tasks if res is not None])
ExtendResults(results, results_from_tasks) ==
    results \o SelectSeq(results_from_tasks, NotNone)

\* a gather that returns with the first result
GatherAnyDone(ts) == \E t \in 1..Len(ts) : ts[t].st = "done"

\* await asyncio.gather(*tasks) returns once every coroutine has
GatherDone(ts) == \A t \in 1..Len(ts) : ts[t].st = "done"

RECURSIVE AddColumns(_, _)
\* the keys of one record, each put last unless it is a column already
AddColumns(cols, rec) ==
    IF rec = <<>> THEN cols
    ELSE AddColumns(IF \E n \in 1..Len(cols) : cols[n] = Head(rec).k
                    THEN cols ELSE Append(cols, Head(rec).k),
                    Tail(rec))

RECURSIVE Columns(_, _)
\* pd.DataFrame(list of dicts).columns: the keys in the order first met
Columns(cols, records) ==
    IF records = <<>> THEN cols
    ELSE Columns(AddColumns(cols, Head(records)), Tail(records))

preferred_order ==
    << "FILENAME", "ERROR", "NAME", "YEARS OF EXPERIENCE", "KEY STRENGTHS", "SUMMARY",
       "SUITABLE FOR MY REQUIREMENT (Y/N)", "OVERFIT (Y/N)" >>

InSeq(x, q) == \E n \in 1..Len(q) : q[n] = x

\* the columns as the DataFrame has them
NewColsAsMet(cols) == cols

\* [col for col in preferred_order if col in cols] + [col for col in cols if col not in preferred_order]
NewCols(cols) ==
    LET IsCol(c) == InSeq(c, cols)
        NotPreferred(c) == ~InSeq(c, preferred_order)
    IN  SelectSeq(preferred_order, IsCol) \o SelectSeq(cols, NotPreferred)

Init ==
    /\ client \in {"client", "None"}
    /\ files \in UNION {[1..n -> UploadItems] : n \in 0..MaxFiles}
    /\ pc = "entry"
    /\ i = 1
    /\ processed_results = <<>>
    /\ tasks = <<>>
    /\ new_cols = <<>>
    /\ x_idle
    /\ s_idle

\* if client is None: raise HTTPException(500)
EP_Entry ==
    /\ pc = "entry"
    /\ pc' = IF client = "None" THEN "http500_client" ELSE "loop"
    /\ UNCHANGED <<client, files, i, processed_results, tasks, new_cols, x_vars, s_vars>>

\* one turn of "for file in files"
EP_File ==
    /\ pc = "loop"
    /\ i <= Len(files)
    /\ LET v == Validate(files[i])
       IN  IF v.dispatch
           THEN /\ tasks' = Append(tasks, NewTask(files[i]))
                /\ UNCHANGED processed_results
           ELSE /\ processed_results' = Append(processed_results, v.rec)
                /\ UNCHANGED tasks
    /\ i' = i + 1
    /\ UNCHANGED <<client, files, pc, new_cols, x_vars, s_vars>>

\* "if tasks: await asyncio.gather(*tasks)": every coroutine starts and reaches its model call
EP_Gather ==
    /\ pc = "loop"
    /\ i > Len(files)
    /\ IF tasks # <<>>
       THEN /\ pc' = "gather"
            /\ tasks' = [t \in 1..Len(tasks) |-> [tasks[t] EXCEPT !.st = "in_flight"]]
       ELSE /\ pc' = "check"
            /\ UNCHANGED tasks
    /\ UNCHANGED <<client, files, i, processed_results, new_cols, x_vars, s_vars>>

\* the model call of one coroutine ends, in any order, and the coroutine returns
EP_TaskReturns(t) ==
    /\ tasks[t].st = "in_flight"
    /\ \E response \in EndpointResponses :
          LET r == process_single_resume(tasks[t].filename, client, response)
          IN  /\ r.outcome = "return"
              /\ tasks' = [tasks EXCEPT ![t] = [@ EXCEPT !.st = "done", !.result = r.value]]
    /\ UNCHANGED <<client, files, pc, i, processed_results, new_cols, x_vars, s_vars>>

\* gather returns the results by position, and the list is extended
EP_GatherReturns ==
    /\ pc = "gather"
    /\ GatherDone(tasks)
    /\ processed_results' =
          ExtendResults(processed_results,
                        [t \in 1..Len(tasks) |->
                            IF tasks[t].st = "done" THEN tasks[t].result ELSE PyNone])
    /\ pc' = "check"
    /\ UNCHANGED <<client, files, i, tasks, new_cols, x_vars, s_vars>>

\* "if not processed_results: raise HTTPException(400)", else the DataFrame and its columns
EP_Check ==
    /\ pc = "check"
    /\ IF processed_results = <<>>
       THEN /\ pc' = "http400"
            /\ UNCHANGED new_cols
       ELSE /\ pc' = "serialize"
            /\ new_cols' = NewCols(Columns(<<>>, processed_results))
    /\ UNCHANGED <<client, files, i, processed_results, tasks, x_vars, s_vars>>

\* await asyncio.to_thread(df.to_excel, ...): the response, or HTTPException(500)
EP_Serialize ==
    /\ pc = "serialize"
    /\ \E ok \in BOOLEAN : pc' = IF ok THEN "done" ELSE "http500_export"
    /\ UNCHANGED <<client, files, i, processed_results, tasks, new_cols, x_vars, s_vars>>

Next ==
    \/ EP_Entry
    \/ EP_File
    \/ EP_Gather
    \/ \E t \in 1..Len(tasks) : EP_TaskReturns(t)
    \/ EP_GatherReturns
    \/ EP_Check
    \/ EP_Serialize

Spec == Init /\ [][Next]_vars

----------------------------------------------------------------------------
(* The claims about the endpoint *)

\* the rows were handed to the exporter
Exporting == pc \in {"serialize", "done", "http500_export"}

\* gather has returned, or there was nothing to gather
Gathered == pc \in {"check", "http400", "serialize", "done", "http500_export"}

\* a file that passes the validation: a PDF with a name and some bytes
IsValid(file) ==
    /\ file.content_type = PDF
    /\ file.filename # ""
    /\ file.read = "bytes"

\* how many of the first n files do not pass, and how many do
NRejected(n) == Cardinality({m \in 1..n : ~IsValid(files[m])})
NValid(n) == Cardinality({m \in 1..n : IsValid(files[m])})

\* for each file name, the records its coroutine can end with
ResultsOf ==
    [ f \in {it.filename : it \in UploadItems} |->
        { process_single_resume(f, "client", r).value : r \in EndpointResponses } ]

ResultsFor(filename) == ResultsOf[filename]

C2_EveryRecordNamesItsFile ==
    Gathered =>
        \A m \in 1..Len(files) :
            LET n == IF IsValid(files[m]) THEN NRejected(Len(files)) + NValid(m)
                     ELSE NRejected(m)
            IN  /\ n <= Len(processed_results)
                /\ HasKey(processed_results[n], "FILENAME")
                /\ Get(processed_results[n], "FILENAME") =
                      IF files[m].content_type = PDF /\ files[m].filename = ""
                      THEN StrVal("N/A") ELSE StrVal(files[m].filename)

\* C3: with a client, a batch none of whose files was dispatched (no file at all, or
\* every file rejected) ends in the 400 failure and hands no table to the exporter.
C3_NothingDispatchedIs400 ==
    (client # "None" /\ tasks = <<>> /\ pc \notin {"entry", "loop", "check"}) => pc = "http400"

\* C5: after the gather the result list is the rejected files' records in the order of
\* the files, then the coroutines' results in the order of their files, however the
\* model calls ended.
C5_ResultOrder ==
    Gathered /\ client # "None" =>
        /\ Len(processed_results) = Len(files)
        /\ Len(tasks) = NValid(Len(files))
        /\ \A m \in 1..Len(files) :
              IF IsValid(files[m])
              THEN /\ tasks[NValid(m)].filename = files[m].filename
                   /\ processed_results[NRejected(Len(files)) + NValid(m)]
                          = tasks[NValid(m)].result
                   /\ tasks[NValid(m)].result \in ResultsFor(files[m].filename)
              ELSE /\ processed_results[NRejected(m)] \notin ResultsFor(files[m].filename)
                   /\ Keys(processed_results[NRejected(m)]) = {"FILENAME", "ERROR"}
                   /\ Get(processed_results[NRejected(m)], "FILENAME")
                          \in {StrVal(files[m].filename), StrVal("N/A")}

\* a valid file uploaded before a rejected one and before another valid one, all done
C5_Witness ==
    /\ pc = "done"
    /\ Len(files) = 3
    /\ IsValid(files[1])
    /\ ~IsValid(files[2])
    /\ IsValid(files[3])
    /\ files[1].filename # files[3].filename
    /\ tasks[1].result # tasks[2].result

\* C6: a file whose type is not PDF gets a record with FILENAME and ERROR and nothing
\* else, no coroutine is made for it, and the files that pass the validation each get
\* their coroutine and, after the gather, their record.
C6_NonPdfRejected ==
    (pc \notin {"entry", "http500_client"}) =>
        LET seen == IF pc = "loop" THEN i - 1 ELSE Len(files)
        IN  /\ Len(tasks) = NValid(seen)
            /\ \A m \in 1..seen :
                  /\ files[m].content_type # PDF =>
                        /\ NRejected(m) <= Len(processed_results)
                        /\ Keys(processed_results[NRejected(m)]) = {"FILENAME", "ERROR"}
                        /\ Get(processed_results[NRejected(m)], "FILENAME")
                              = StrVal(files[m].filename)
                        /\ Get(processed_results[NRejected(m)], "ERROR").s # ""
                        /\ \A t \in 1..Len(tasks) : tasks[t].filename # files[m].filename
                  /\ IsValid(files[m]) =>
                        /\ tasks[NValid(m)].filename = files[m].filename
                        /\ Gathered =>
                              processed_results[NRejected(Len(files)) + NValid(m)]
                                  = tasks[NValid(m)].result

\* a non-PDF file first, a valid file after it, whose record holds a NAME
C6_Witness ==
    /\ pc = "done"
    /\ Len(files) >= 2
    /\ files[1].content_type # PDF
    /\ IsValid(files[2])
    /\ HasKey(processed_results[Len(processed_results)], "NAME")
    /\ ~HasKey(processed_results[1], "NAME")

\* where x stands in q
Pos(x, q) == CHOOSE n \in 1..Len(q) : q[n] = x

\* key k is met first in record r at entry e, reading the records in order
FirstMet(k, r, e) ==
    /\ processed_results[r][e].k = k
    /\ \A r2 \in 1..(r - 1) : ~HasKey(processed_results[r2], k)

\* column a is met before column b
MetBefore(a, b) ==
    \E ra, rb \in 1..Len(processed_results) :
        \E ea \in 1..Len(processed_results[ra]), eb \in 1..Len(processed_results[rb]) :
            /\ FirstMet(a, ra, ea)
            /\ FirstMet(b, rb, eb)
            /\ ra < rb \/ (ra = rb /\ ea < eb)

\* C7: the header is the union of the records' keys, no key twice; the keys of the
\* preferred order come first, in that order, and the other keys follow in the order
\* in which the records first hold them.
C7_Header ==
    Exporting =>
        /\ {new_cols[n] : n \in 1..Len(new_cols)}
              = UNION {Keys(processed_results[r]) : r \in 1..Len(processed_results)}
        /\ \A m, n \in 1..Len(new_cols) : m < n =>
              /\ new_cols[m] # new_cols[n]
              /\ IF InSeq(new_cols[m], preferred_order)
                 THEN InSeq(new_cols[n], preferred_order) =>
                          Pos(new_cols[m], preferred_order) < Pos(new_cols[n], preferred_order)
                 ELSE /\ ~InSeq(new_cols[n], preferred_order)
                      /\ MetBefore(new_cols[m], new_cols[n])

\* two records with an extra key each, not the same, beside a record with an ERROR
C7_Witness ==
    /\ pc = "serialize"
    /\ \E r \in 1..Len(processed_results) : HasKey(processed_results[r], "ERROR")
    /\ \E r1, r2 \in 1..Len(processed_results) :
          /\ r1 < r2
          /\ HasKey(processed_results[r1], "SCORE")
          /\ HasKey(processed_results[r2], "NOTES")
    /\ Len(new_cols) = 6

\* C8: no coroutine starts before the loop over the files has ended, and the export
\* does not begin while a model call is in flight.
C8_FanOutFanIn ==
    /\ pc \in {"entry", "loop"} => \A t \in 1..Len(tasks) : tasks[t].st = "created"
    /\ pc \in {"check", "http400", "serialize", "done", "http500_export"} =>
          \A t \in 1..Len(tasks) : tasks[t].st = "done"

\* one coroutine has ended with an error record while another's model call is in flight
C8_Witness ==
    /\ pc = "gather"
    /\ \E t1, t2 \in 1..Len(tasks) :
          /\ tasks[t1].st = "done"
          /\ HasKey(tasks[t1].result, "ERROR")
          /\ tasks[t2].st = "in_flight"

====
